---- MODULE Spec2Model ----
(***************************************************************************)
(* A model of lib/corpus.js of text-miner: the Corpus constructor and its  *)
(* methods.  Document objects live in a heap and a corpus holds an array   *)
(* of references to them, because the code shares Document objects         *)
(* between corpora (map, filter, addDoc of an existing object).            *)
(***************************************************************************)
EXTENDS Integers, Sequences, FiniteSets, TLC

\* ------------------------------------------------------------------ bounds
\* The number of calls (constructor and methods) a behaviour makes.
MaxCalls == 3

\* ---------------------------------------------------------- JavaScript values
\* A value is [t, s]: t is its type, s the characters of a string, the digits
\* of a number, the own keys of an object, or the word true/false of a boolean.
Str(s) == [t |-> "string", s |-> s]
Num(d) == [t |-> "number", s |-> <<d>>]
Obj(keys) == [t |-> "object", s |-> keys]
Bool(b) == [t |-> "boolean", s |-> IF b THEN <<"true">> ELSE <<"false">>]
Undefined == [t |-> "undefined", s |-> <<>>]

Range(s) == {s[i] : i \in 1..Len(s)}

\* if ( bool ): JavaScript truthiness
Truthy(v) ==
    CASE v.t = "boolean" -> v.s = <<"true">>
      [] v.t = "string" -> v.s # <<>>
      [] v.t = "number" -> v.s # <<"0">>
      [] v.t = "undefined" -> FALSE
      [] OTHER -> TRUE

\* An argument a caller passes: a value, plus for an object the heap reference
\* when it is a Document some corpus already holds (ref # 0), or the fields of
\* a fresh object literal; for an array, its elements.
Arg(t, s, ref, text, attributes) ==
    [t |-> t, s |-> s, ref |-> ref, text |-> text, attributes |-> attributes]
StrArg(s) == Arg("string", s, 0, Undefined, Undefined)
NumArg(d) == Arg("number", <<d>>, 0, Undefined, Undefined)
ObjArg(keys) == Arg("object", keys, 0, Undefined, Undefined)
DocArg(text, attributes) == Arg("object", <<"text", "attributes">>, 0, text, attributes)
RefArg(d) == Arg("object", <<"text", "attributes">>, d, Undefined, Undefined)
UndefArg == Arg("undefined", <<>>, 0, Undefined, Undefined)
ArrayArg(elems) == [t |-> "array", elems |-> elems]
AsValue(a) == [t |-> a.t, s |-> a.s]

\* validate.io-string-primitive
isString(val) == val.t = "string"
\* validate.io-object: typeof 'object', not null, not an array
isObject(val) == val.t = "object"
\* validate.io-array-like, applied here to arrays and to values without a length
isArray(val) == val.t = "array"
\* validate.io-string-array: a non-empty array of string primitives
isStringArray(val) ==
    /\ val.t = "array"
    /\ Len(val.elems) > 0
    /\ \A i \in 1..Len(val.elems) : isString(val.elems[i])
\* validate.io-object-array: a non-empty array of objects
isObjectArray(val) ==
    /\ val.t = "array"
    /\ Len(val.elems) > 0
    /\ \A i \in 1..Len(val.elems) : isObject(val.elems[i])
hasOwnProperty(val, key) == key \in Range(val.s)

isDoc(val) ==
    isObject(val) /\ hasOwnProperty(val, "text") /\ hasOwnProperty(val, "attributes")

\* isDocArray looking at the first element only.
isDocArrayFirstOnly(val) ==
    IF ~isArray(val) THEN FALSE
    ELSE val.elems = <<>> \/ isDoc(val.elems[1])

isDocArray(val) ==
    IF ~isArray(val) THEN FALSE
    ELSE \A i \in 1..Len(val.elems) : isDoc(val.elems[i])

\* new Doc( text ): the text and an empty attributes mapping
Doc(text) == [text |-> text, attributes |-> Obj(<<>>)]

\* ------------------------------------------------------------- string functions
IsSpace(ch) == ch \in {" ", "LF", "CR"}
IsDigit(ch) == ch \in {"0", "1", "5"}
IsWordChar(ch) == ch \in {"a", "A", "b", "B", "x", "X", "0", "1", "5"}
LowerChar(ch) == CASE ch = "A" -> "a" [] ch = "B" -> "b" [] ch = "X" -> "x" [] OTHER -> ch
UpperChar(ch) == CASE ch = "a" -> "A" [] ch = "b" -> "B" [] ch = "x" -> "X" [] OTHER -> ch

toLowerCase(s) == [i \in 1..Len(s) |-> LowerChar(s[i])]
toUpperCase(s) == [i \in 1..Len(s) |-> UpperChar(s[i])]

RECURSIVE TrimLeft(_)
TrimLeft(s) == IF s # <<>> /\ IsSpace(Head(s)) THEN TrimLeft(Tail(s)) ELSE s
RECURSIVE TrimRight(_)
TrimRight(s) ==
    IF s # <<>> /\ IsSpace(s[Len(s)]) THEN TrimRight(SubSeq(s, 1, Len(s) - 1)) ELSE s
\* _.trim( text )
StrTrim(s) == TrimRight(TrimLeft(s))

\* replace( /\s\s+/g, ' ' ): a run of two or more whitespace characters
\* becomes one space; a single whitespace character stays as it is
RECURSIVE CollapseRuns(_)
CollapseRuns(s) ==
    IF s = <<>> THEN <<>>
    ELSE IF IsSpace(Head(s)) /\ Len(s) > 1 /\ IsSpace(s[2])
         THEN <<" ">> \o CollapseRuns(TrimLeft(s))
         ELSE <<Head(s)>> \o CollapseRuns(Tail(s))
\* _.clean( text ) of underscore.string
StrClean(s) == CollapseRuns(StrTrim(s))

\* replace( /[\!\?\.,;-]/g, ' ' )
ReplaceInterpunctuation(s) ==
    [i \in 1..Len(s) |-> IF s[i] \in {"!", "?", ".", ",", ";", "-"} THEN " " ELSE s[i]]
\* replace( /\r?\n|\r/g, ' ' )
RECURSIVE ReplaceNewlines(_)
ReplaceNewlines(s) ==
    IF s = <<>> THEN <<>>
    ELSE IF Head(s) = "CR" /\ Len(s) > 1 /\ s[2] = "LF"
         THEN <<" ">> \o ReplaceNewlines(SubSeq(s, 3, Len(s)))
         ELSE IF Head(s) \in {"CR", "LF"}
              THEN <<" ">> \o ReplaceNewlines(Tail(s))
              ELSE <<Head(s)>> \o ReplaceNewlines(Tail(s))
\* replace( /\d/g, '' )
DeleteDigits(s) == SelectSeq(s, LAMBDA ch : ~IsDigit(ch))
\* replace( /\uFFFD/g, '' )
DeleteInvalid(s) == SelectSeq(s, LAMBDA ch : ch # "FFFD")

\* new RegExp( "\\b" + word + "\\b", options ) matching at position p of s
\* (word is made of word characters, so \b needs a non-word neighbour)
MatchesAt(s, p, word, ci) ==
    /\ p + Len(word) - 1 <= Len(s)
    /\ \A j \in 1..Len(word) :
          IF ci THEN LowerChar(s[p + j - 1]) = LowerChar(word[j])
          ELSE s[p + j - 1] = word[j]
    /\ (p = 1 \/ ~IsWordChar(s[p - 1]))
    /\ (p + Len(word) > Len(s) \/ ~IsWordChar(s[p + Len(word)]))
\* text.replace( myRegExp, '' ) with the g flag, scanning from position p
RECURSIVE ReplaceWord(_, _, _, _)
ReplaceWord(s, p, word, ci) ==
    IF p > Len(s) THEN <<>>
    ELSE IF MatchesAt(s, p, word, ci)
         THEN ReplaceWord(s, p + Len(word), word, ci)
         ELSE <<s[p]>> \o ReplaceWord(s, p + 1, word, ci)

\* ------------------------------------------------------------------ inputs
\* Functions a caller passes to apply, map and filter, and the functions the
\* built-in normalizations pass to apply.  throwAt is the index at which the
\* caller's function raises (-1: never).
UserFUNs == [base : {"const", "num", "byAttr"}, throwAt : {-1, 0, 1}]
Predicates == [base : {"even", "text", "hasK"}, throwAt : {-1, 0, 1}]
Builtin(name) == [base |-> name, throwAt |-> -1]

Returned(v) == [threw |-> "none", val |-> v]
Threw(e) == [threw |-> e, val |-> Undefined]
\* a String.prototype method called on text: a TypeError when text is no string
OnString(text, result) == IF text.t = "string" THEN Returned(Str(result)) ELSE Threw("TypeError")
\* makeString of underscore.string: '' + value
MakeString(text) == IF text.t = "undefined" THEN <<>> ELSE text.s

\* FUN( doc.text, doc.attributes, i )
CallFUN(FUN, text, attributes, i) ==
    IF i = FUN.throwAt THEN Threw("FUN")
    ELSE CASE FUN.base = "const" -> Returned(Str(<<"x">>))
           [] FUN.base = "num" -> Returned(Num("5"))
           [] FUN.base = "byAttr" ->
                IF hasOwnProperty(attributes, "k") THEN OnString(text, toUpperCase(text.s))
                ELSE Returned(text)
           [] FUN.base = "even" -> Returned(Bool(i % 2 = 0))
           [] FUN.base = "text" -> Returned(text)
           [] FUN.base = "hasK" -> Returned(Bool(hasOwnProperty(attributes, "k")))
           [] FUN.base = "clean" -> Returned(Str(StrClean(MakeString(text))))
           [] FUN.base = "trim" -> Returned(Str(StrTrim(MakeString(text))))
           [] FUN.base = "toLower" -> OnString(text, toLowerCase(text.s))
           [] FUN.base = "toUpper" -> OnString(text, toUpperCase(text.s))
           [] FUN.base = "stem" -> OnString(text, toLowerCase(text.s))
           [] FUN.base = "removeInterpunctuation" -> OnString(text, ReplaceInterpunctuation(text.s))
           [] FUN.base = "removeNewlines" -> OnString(text, ReplaceNewlines(text.s))
           [] FUN.base = "removeDigits" -> OnString(text, DeleteDigits(text.s))
           [] FUN.base = "removeInvalidCharacters" -> OnString(text, DeleteInvalid(text.s))

\* ------------------------------------------------------------------- state
VARIABLES
    heap,       \* the Document objects allocated so far: heap[d] = [text, attributes]
    documents,  \* documents[c]: the documents array of corpus c, references into heap
    ret,        \* what the last call returned
    err,        \* the error the last call raised, "none" if it returned
    last,       \* the last call: its name, receiver and arguments
    calls       \* the number of calls made so far
vars == <<heap, documents, ret, err, last, calls>>

Corpora == 1..Len(documents)
nDocs(c) == Len(documents[c])

RetSelf(c) == [k |-> "corpus", c |-> c]
RetUndefined == [k |-> "undefined", c |-> 0]
RetNothing == [k |-> "thrown", c |-> 0]

Init ==
    /\ heap = <<>>
    /\ documents = <<>>
    /\ ret = RetUndefined
    /\ err = "none"
    /\ last = [op |-> "none", self |-> 0, arg |-> <<>>]
    /\ calls = 0

\* Arguments callers pass.  An object argument is a fresh literal or a Document
\* object that is already in the heap.
TextA == <<"a">>
TextB == <<" ", "B", ";", "CR", "LF", "1", "FFFD">>
NewDoc == DocArg(Str(TextA), Obj(<<"k">>))
OddDoc == DocArg(Num("5"), Num("7"))
StringArrays ==
    {ArrayArg(<<StrArg(TextA)>>), ArrayArg(<<StrArg(TextA), StrArg(TextB)>>),
     ArrayArg(<<StrArg(TextB), StrArg(TextA)>>),
     ArrayArg(<<StrArg(TextA), StrArg(TextB), StrArg(TextA)>>)}
OtherArrays == {ArrayArg(<<>>), ArrayArg(<<StrArg(TextA), NumArg("5")>>)}
ConstructorArgs ==
    {UndefArg, NumArg("5"), StrArg(TextA)} \cup StringArrays \cup OtherArrays
addDocArgs ==
    {StrArg(TextA), StrArg(TextB), NumArg("5"), ObjArg(<<"text">>), NewDoc, OddDoc}
    \cup {RefArg(d) : d \in 1..Len(heap)}
addDocsArgs ==
    StringArrays \cup OtherArrays
    \cup {UndefArg, ArrayArg(<<OddDoc>>), ArrayArg(<<StrArg(TextA), NewDoc>>),
          ArrayArg(<<NewDoc, StrArg(TextA)>>)}
    \cup {ArrayArg(<<RefArg(d), NewDoc>>) : d \in 1..Len(heap)}
AttrK == ObjArg(<<"k">>)
AttrNone == ObjArg(<<>>)
setAttributesArgs ==
    {ArrayArg(<<>>), ArrayArg(<<AttrK>>), ArrayArg(<<AttrK, AttrNone>>),
     ArrayArg(<<AttrNone, AttrK>>), ArrayArg(<<AttrK, AttrNone, AttrK>>),
     ArrayArg(<<AttrK, NumArg("5")>>), UndefArg}
WordLists == {<<>>, <<TextA>>, <<<<"B">>, <<"1">>>>}

\* --------------------------------------------------------------- allocation
\* The heap after the elements of an array became Documents of a corpus, and
\* the references to them: a string is wrapped in a new Doc, an object that is
\* not in the heap yet enters it, an object already in it is referenced.
RECURSIVE Wrap(_, _, _, _)
Wrap(h, elems, i, refs) ==
    IF i > Len(elems) THEN [heap |-> h, refs |-> refs]
    ELSE LET e == elems[i] IN
         IF isString(e)
         THEN Wrap(Append(h, Doc(AsValue(e))), elems, i + 1, Append(refs, Len(h) + 1))
         ELSE IF e.ref # 0
              THEN Wrap(h, elems, i + 1, Append(refs, e.ref))
              ELSE Wrap(Append(h, [text |-> e.text, attributes |-> e.attributes]),
                        elems, i + 1, Append(refs, Len(h) + 1))

\* A call is recorded, within the budget of calls.
Call(op, c, arg) ==
    /\ calls < MaxCalls
    /\ calls' = calls + 1
    /\ last' = [op |-> op, self |-> c, arg |-> arg]

\* -------------------------------------------------------------- constructor
\* new Corpus( docs ) with this.init( docs )
Corpus(docs) ==
    /\ Call("Corpus", 0, docs)
    /\ IF docs.t = "undefined"
       THEN /\ documents' = Append(documents, <<>>)
            /\ heap' = heap
            /\ err' = "none"
       ELSE IF isString(docs)
       THEN /\ heap' = Append(heap, Doc(AsValue(docs)))
            /\ documents' = Append(documents, <<Len(heap) + 1>>)
            /\ err' = "none"
       ELSE IF isStringArray(docs)
       THEN LET w == Wrap(heap, docs.elems, 1, <<>>) IN
            /\ heap' = w.heap
            /\ documents' = Append(documents, w.refs)
            /\ err' = "none"
       ELSE /\ UNCHANGED <<heap, documents>>
            /\ err' = "InvalidArgument"
    /\ ret' = IF err' = "none" THEN RetSelf(Len(documents) + 1) ELSE RetNothing

\* ------------------------------------------------------------------ addDoc
addDoc(c, doc) ==
    /\ Call("addDoc", c, doc)
    /\ IF isString(doc) \/ isDoc(doc)
       THEN LET w == Wrap(heap, <<doc>>, 1, <<>>) IN
            /\ heap' = w.heap
            /\ documents' = [documents EXCEPT ![c] = @ \o w.refs]
            /\ err' = "none"
            /\ ret' = RetUndefined
       ELSE /\ UNCHANGED <<heap, documents>>
            /\ err' = "InvalidArgument"
            /\ ret' = RetNothing

\* ------------------------------------------------------------ setAttributes
RECURSIVE AssignAttributes(_, _, _, _)
AssignAttributes(h, docs, arr, i) ==
    IF i > Len(arr) THEN h
    ELSE AssignAttributes([h EXCEPT ![docs[i]].attributes = AsValue(arr[i])], docs, arr, i + 1)

\* setAttributes comparing the lengths only after the loop.
setAttributesCheckLast(c, arr) ==
    /\ Call("setAttributes", c, arr)
    /\ UNCHANGED documents
    /\ IF ~isObjectArray(arr)
       THEN /\ heap' = heap
            /\ err' = "InvalidArgument"
       ELSE LET m == IF Len(arr.elems) < nDocs(c) THEN Len(arr.elems) ELSE nDocs(c) IN
            /\ heap' = AssignAttributes(heap, documents[c], SubSeq(arr.elems, 1, m), 1)
            /\ err' = IF Len(arr.elems) # nDocs(c) THEN "LengthMismatch" ELSE "none"
    /\ ret' = IF err' = "none" THEN RetSelf(c) ELSE RetNothing

setAttributes(c, arr) ==
    /\ Call("setAttributes", c, arr)
    /\ UNCHANGED documents
    /\ IF ~isObjectArray(arr)
       THEN /\ heap' = heap
            /\ err' = "InvalidArgument"
       ELSE IF Len(arr.elems) # nDocs(c)
       THEN /\ heap' = heap
            /\ err' = "LengthMismatch"
       ELSE /\ heap' = AssignAttributes(heap, documents[c], arr.elems, 1)
            /\ err' = "none"
    /\ ret' = IF err' = "none" THEN RetSelf(c) ELSE RetNothing

\* ----------------------------------------------------------------- addDocs
\* addDocs with the operands of concat exchanged.
addDocsInFront(c, docs) ==
    /\ Call("addDocs", c, docs)
    /\ IF isStringArray(docs) \/ isDocArray(docs)
       THEN LET w == Wrap(heap, docs.elems, 1, <<>>) IN
            /\ heap' = w.heap
            /\ documents' = [documents EXCEPT ![c] = w.refs \o @]
            /\ err' = "none"
            /\ ret' = RetUndefined
       ELSE /\ UNCHANGED <<heap, documents>>
            /\ err' = "InvalidArgument"
            /\ ret' = RetNothing

addDocs(c, docs) ==
    /\ Call("addDocs", c, docs)
    /\ IF isStringArray(docs) \/ isDocArray(docs)
       THEN LET w == Wrap(heap, docs.elems, 1, <<>>) IN
            /\ heap' = w.heap
            /\ documents' = [documents EXCEPT ![c] = @ \o w.refs]
            /\ err' = "none"
            /\ ret' = RetUndefined
       ELSE /\ UNCHANGED <<heap, documents>>
            /\ err' = "InvalidArgument"
            /\ ret' = RetNothing

\* ------------------------------------------------------------------- apply
\* apply restoring the texts it has written when FUN raises.
RECURSIVE ApplyLoopRollback(_, _, _, _)
ApplyLoopRollback(h, docs, FUN, i) ==
    IF i >= Len(docs) THEN [heap |-> h, err |-> "none"]
    ELSE LET doc == docs[i + 1]
             r == CallFUN(FUN, h[doc].text, h[doc].attributes, i)
         IN IF r.threw # "none" THEN [heap |-> heap, err |-> r.threw]
            ELSE ApplyLoopRollback([h EXCEPT ![doc].text = r.val], docs, FUN, i + 1)

\* The loop of apply from index i on: the heap it leaves and the error that
\* stopped it.
RECURSIVE ApplyLoop(_, _, _, _)
ApplyLoop(h, docs, FUN, i) ==
    IF i >= Len(docs) THEN [heap |-> h, err |-> "none"]
    ELSE LET doc == docs[i + 1]
             r == CallFUN(FUN, h[doc].text, h[doc].attributes, i)
         IN IF r.threw # "none" THEN [heap |-> h, err |-> r.threw]
            ELSE ApplyLoop([h EXCEPT ![doc].text = r.val], docs, FUN, i + 1)

ApplyTo(c, FUN) ==
    LET r == ApplyLoop(heap, documents[c], FUN, 0) IN
    /\ heap' = r.heap
    /\ err' = r.err
    /\ ret' = IF r.err = "none" THEN RetSelf(c) ELSE RetNothing
    /\ UNCHANGED documents

apply(c, FUN) ==
    /\ Call("apply", c, FUN)
    /\ ApplyTo(c, FUN)

\* ---------------------------------------------------- built-in normalizations
clean(c) == Call("clean", c, <<>>) /\ ApplyTo(c, Builtin("clean"))
trim(c) == Call("trim", c, <<>>) /\ ApplyTo(c, Builtin("trim"))
toLower(c) == Call("toLower", c, <<>>) /\ ApplyTo(c, Builtin("toLower"))
toUpper(c) == Call("toUpper", c, <<>>) /\ ApplyTo(c, Builtin("toUpper"))
\* On the texts of this model neither stemmer of natural has a suffix to
\* strip: both lower-case the text.
stem(c, type) == Call("stem", c, type) /\ ApplyTo(c, Builtin("stem"))
removeInterpunctuation(c) ==
    Call("removeInterpunctuation", c, <<>>) /\ ApplyTo(c, Builtin("removeInterpunctuation"))
removeNewlines(c) ==
    Call("removeNewlines", c, <<>>) /\ ApplyTo(c, Builtin("removeNewlines"))
removeDigits(c) ==
    Call("removeDigits", c, <<>>) /\ ApplyTo(c, Builtin("removeDigits"))
removeInvalidCharacters(c) ==
    Call("removeInvalidCharacters", c, <<>>) /\ ApplyTo(c, Builtin("removeInvalidCharacters"))

\* --------------------------------------------------------------------- map
\* The loop of map from index i on; out is ret.documents.  ret.addDoc( doc )
\* takes the isDoc branch: the object itself is pushed.
RECURSIVE MapLoop(_, _, _, _, _)
MapLoop(h, docs, FUN, i, out) ==
    IF i >= Len(docs) THEN [heap |-> h, err |-> "none", out |-> out]
    ELSE LET doc == docs[i + 1]
             r == CallFUN(FUN, h[doc].text, h[doc].attributes, i)
         IN IF r.threw # "none" THEN [heap |-> h, err |-> r.threw, out |-> out]
            ELSE MapLoop([h EXCEPT ![doc].text = r.val], docs, FUN, i + 1, Append(out, doc))

map(c, FUN) ==
    /\ Call("map", c, FUN)
    /\ LET r == MapLoop(heap, documents[c], FUN, 0, <<>>) IN
       /\ heap' = r.heap
       /\ err' = r.err
       /\ IF r.err = "none"
          THEN /\ documents' = Append(documents, r.out)
               /\ ret' = RetSelf(Len(documents) + 1)
          ELSE /\ documents' = documents
               /\ ret' = RetNothing

\* ------------------------------------------------------------------ filter
\* filter keeping the documents the predicate rejects.
RECURSIVE FilterLoopNegated(_, _, _, _, _)
FilterLoopNegated(h, docs, FUN, i, out) ==
    IF i >= Len(docs) THEN [err |-> "none", out |-> out]
    ELSE LET doc == docs[i + 1]
             bool == CallFUN(FUN, h[doc].text, h[doc].attributes, i)
         IN IF bool.threw # "none" THEN [err |-> bool.threw, out |-> out]
            ELSE FilterLoopNegated(h, docs, FUN, i + 1,
                                   IF ~Truthy(bool.val) THEN Append(out, doc) ELSE out)

RECURSIVE FilterLoop(_, _, _, _, _)
FilterLoop(h, docs, FUN, i, out) ==
    IF i >= Len(docs) THEN [err |-> "none", out |-> out]
    ELSE LET doc == docs[i + 1]
             bool == CallFUN(FUN, h[doc].text, h[doc].attributes, i)
         IN IF bool.threw # "none" THEN [err |-> bool.threw, out |-> out]
            ELSE FilterLoop(h, docs, FUN, i + 1,
                            IF Truthy(bool.val) THEN Append(out, doc) ELSE out)

filter(c, FUN) ==
    /\ Call("filter", c, FUN)
    /\ LET r == FilterLoop(heap, documents[c], FUN, 0, <<>>) IN
       /\ heap' = heap
       /\ err' = r.err
       /\ IF r.err = "none"
          THEN /\ documents' = Append(documents, r.out)
               /\ ret' = RetSelf(Len(documents) + 1)
          ELSE /\ documents' = documents
               /\ ret' = RetNothing

\* ------------------------------------------------------------- removeWords
\* The inner loop: every word removed from one text in turn.
RECURSIVE RemoveAll(_, _, _, _)
RemoveAll(s, words, ci, i) ==
    IF i > Len(words) THEN s
    ELSE RemoveAll(ReplaceWord(s, 1, words[i], ci), words, ci, i + 1)

\* The outer loop from document index doc on.  text.replace raises a
\* TypeError on a text that is no string, once there is a word to remove.
RECURSIVE RemoveLoop(_, _, _, _, _)
RemoveLoop(h, docs, words, ci, doc) ==
    IF doc >= Len(docs) THEN [heap |-> h, err |-> "none"]
    ELSE LET d == docs[doc + 1] IN
         IF words = <<>> THEN RemoveLoop(h, docs, words, ci, doc + 1)
         ELSE IF h[d].text.t # "string" THEN [heap |-> h, err |-> "TypeError"]
         ELSE RemoveLoop([h EXCEPT ![d].text = Str(RemoveAll(h[d].text.s, words, ci, 1))],
                         docs, words, ci, doc + 1)

removeWords(c, words, case_insensitive) ==
    /\ Call("removeWords", c, <<words, case_insensitive>>)
    /\ UNCHANGED documents
    /\ LET r == RemoveLoop(heap, documents[c], words, case_insensitive, 0)
           cleaned == ApplyLoop(r.heap, documents[c], Builtin("clean"), 0)
       IN IF r.err # "none"
          THEN heap' = r.heap /\ err' = r.err /\ ret' = RetNothing
          ELSE /\ heap' = cleaned.heap
               /\ err' = cleaned.err
               /\ ret' = IF cleaned.err = "none" THEN RetSelf(c) ELSE RetNothing

\* --------------------------------------------------------------------- Next
Next ==
    \/ \E docs \in ConstructorArgs : Corpus(docs)
    \/ \E c \in Corpora, doc \in addDocArgs : addDoc(c, doc)
    \/ \E c \in Corpora, docs \in addDocsArgs : addDocs(c, docs)
    \/ \E c \in Corpora, arr \in setAttributesArgs : setAttributes(c, arr)
    \/ \E c \in Corpora, FUN \in UserFUNs : apply(c, FUN)
    \/ \E c \in Corpora, FUN \in UserFUNs : map(c, FUN)
    \/ \E c \in Corpora, FUN \in Predicates : filter(c, FUN)
    \/ \E c \in Corpora, words \in WordLists, ci \in BOOLEAN : removeWords(c, words, ci)
    \/ \E c \in Corpora : clean(c)
    \/ \E c \in Corpora : trim(c)
    \/ \E c \in Corpora : toLower(c)
    \/ \E c \in Corpora : toUpper(c)
    \/ \E c \in Corpora, type \in {"Porter", "Lancaster"} : stem(c, type)
    \/ \E c \in Corpora : removeInterpunctuation(c)
    \/ \E c \in Corpora : removeNewlines(c)
    \/ \E c \in Corpora : removeDigits(c)
    \/ \E c \in Corpora : removeInvalidCharacters(c)

Spec == Init /\ [][Next]_vars

\* ================================================================== claims
\* What the formulas below read of a call.
Docs(c) == documents[c]
NoDuplicate(docs) == \A i, j \in 1..Len(docs) : docs[i] = docs[j] => i = j
IsArrayOfMappings(arr) ==
    arr.t = "array" /\ \A i \in 1..Len(arr.elems) : arr.elems[i].t = "object"
IsArrayOfStrings(arr) ==
    arr.t = "array" /\ \A i \in 1..Len(arr.elems) : arr.elems[i].t = "string"
IsArrayOfDocuments(arr) ==
    /\ arr.t = "array"
    /\ \A i \in 1..Len(arr.elems) :
          arr.elems[i].t = "object" /\ {"text", "attributes"} \subseteq Range(arr.elems[i].s)
Mutators ==
    {"addDoc", "addDocs", "setAttributes", "apply", "clean", "trim", "toLower", "toUpper",
     "stem", "removeWords", "removeInterpunctuation", "removeNewlines", "removeDigits",
     "removeInvalidCharacters"}
TextMutators == Mutators \ {"addDoc", "addDocs"}

\* C1: C.map(f) changes neither C.nDocs nor the text of any document C held
\* before the call.
C1_MapLeavesReceiver ==
    [][last'.op = "map" =>
         LET c == last'.self IN
         /\ Len(documents'[c]) = nDocs(c)
         /\ \A i \in 1..nDocs(c) : heap'[Docs(c)[i]].text = heap[Docs(c)[i]].text]_vars

\* C2 as stated: setAttributes(arr) with any array of mappings whose length
\* differs from nDocs raises LengthMismatch and changes no document.
C2_AnyLengthMismatch ==
    [][(last'.op = "setAttributes" /\ IsArrayOfMappings(last'.arg)
            /\ Len(last'.arg.elems) # nDocs(last'.self))
        => (err' = "LengthMismatch" /\ heap' = heap /\ documents' = documents)]_vars

\* C2, amended: setAttributes(arr) with a non-empty array of mappings whose
\* length differs from nDocs raises LengthMismatch, with an empty array and a
\* non-empty corpus it raises InvalidArgument, and in both cases every
\* document, text, attributes and nDocs are as before the call.
C2_SetAttributesAllOrNothing ==
    [][(last'.op = "setAttributes" /\ IsArrayOfMappings(last'.arg)
            /\ Len(last'.arg.elems) # nDocs(last'.self))
        => /\ err' = IF last'.arg.elems = <<>> THEN "InvalidArgument" ELSE "LengthMismatch"
           /\ ret' = RetNothing
           /\ heap' = heap
           /\ documents' = documents]_vars

\* A wrong-length setAttributes was raised against a corpus whose documents
\* carry attributes set by an earlier call.
C2_Witness ==
    /\ last.op = "setAttributes"
    /\ err = "LengthMismatch"
    /\ IsArrayOfMappings(last.arg)
    /\ nDocs(last.self) = 2
    /\ Len(last.arg.elems) = 3
    /\ heap[Docs(last.self)[1]].attributes = Obj(<<"k">>)

\* C4: every mutator of the public interface that succeeds returns the
\* corpus it was called on.
C4_MutatorsReturnSelf ==
    (last.op \in Mutators /\ err = "none") => ret = RetSelf(last.self)

\* C5: addDocs with an array of N strings raises nothing, increases nDocs by
\* N, leaves the documents already present where and as they were, and
\* appends one new Document per string, in the order supplied, whose text is
\* that string.
C5_AddDocsAppendsInOrder ==
    [][(last'.op = "addDocs" /\ IsArrayOfStrings(last'.arg)) =>
         LET c == last'.self
             strings == last'.arg.elems
             n == nDocs(c)
         IN /\ err' = "none"
            /\ Len(documents'[c]) = n + Len(strings)
            /\ SubSeq(documents'[c], 1, n) = Docs(c)
            /\ \A d \in 1..Len(heap) : heap'[d] = heap[d]
            /\ \A k \in 1..Len(strings) :
                  /\ documents'[c][n + k] > Len(heap)
                  /\ heap'[documents'[c][n + k]].text = Str(strings[k].s)
            /\ \A j, k \in 1..Len(strings) :
                  documents'[c][n + j] = documents'[c][n + k] => j = k]_vars

\* Two different strings were appended to a corpus that had a document.
C5_Witness ==
    /\ last.op = "addDocs"
    /\ err = "none"
    /\ IsArrayOfStrings(last.arg)
    /\ Len(last.arg.elems) = 2
    /\ last.arg.elems[1] # last.arg.elems[2]
    /\ nDocs(last.self) = 3

\* The indices (from 1) of the documents of corpus c that predicate FUN
\* selects in the current state.
Selected(c, FUN) ==
    {i \in 1..nDocs(c) :
        Truthy(CallFUN(FUN, heap[Docs(c)[i]].text, heap[Docs(c)[i]].attributes, i - 1).val)}
Raises(c, FUN) ==
    {i \in 1..nDocs(c) :
        CallFUN(FUN, heap[Docs(c)[i]].text, heap[Docs(c)[i]].attributes, i - 1).threw # "none"}
\* The j-th smallest element of a set of indices.
Nth(S, j) == CHOOSE i \in S : Cardinality({k \in S : k < i}) = j - 1

\* C6: C.filter(fn), when fn raises nowhere, returns a new Corpus whose
\* documents are exactly the documents of C on which fn is truthy, in their
\* order in C; the call changes no document of C (nor any other) and not the
\* documents array or nDocs of C.
C6_FilterSelectsInOrder ==
    [][last'.op = "filter" =>
         LET c == last'.self
             FUN == last'.arg
             S == Selected(c, FUN)
             new == Len(documents) + 1
         IN /\ heap' = heap
            /\ \A b \in Corpora : documents'[b] = documents[b]
            /\ Raises(c, FUN) = {} =>
                 /\ err' = "none"
                 /\ ret' = [k |-> "corpus", c |-> new]
                 /\ Len(documents') = new
                 /\ Len(documents'[new]) = Cardinality(S)
                 /\ \A j \in 1..Cardinality(S) : documents'[new][j] = Docs(c)[Nth(S, j)]
            /\ Raises(c, FUN) # {} => (err' # "none" /\ documents' = documents)]_vars

\* filter kept the first and third of three documents and dropped the second.
C6_Witness ==
    /\ last.op = "filter"
    /\ err = "none"
    /\ nDocs(last.self) = 3
    /\ ret.k = "corpus"
    /\ Docs(ret.c) = <<Docs(last.self)[1], Docs(last.self)[3]>>
    /\ Docs(last.self)[1] # Docs(last.self)[3]

\* C7: a Corpus D made by C.map(f) or C.filter(p) shares no Document with C,
\* and a text-mutating call on either of the two right after leaves every
\* document of the other as it was.
C7_DerivedCorpusIndependent ==
    [][/\ (last'.op \in {"map", "filter"} /\ err' = "none") =>
            Range(documents'[ret'.c]) \cap Range(documents'[last'.self]) = {}
       /\ (/\ last.op \in {"map", "filter"}
           /\ err = "none"
           /\ last'.op \in TextMutators
           /\ last'.self \in {ret.c, last.self}) =>
            LET other == IF last'.self = ret.c THEN last.self ELSE ret.c
            IN \A i \in 1..nDocs(other) : heap'[Docs(other)[i]] = heap[Docs(other)[i]]]_vars

\* C8: every element of every documents array has a text that is a string and
\* attributes that are a mapping.
C8_DocumentShape ==
    \A c \in Corpora : \A i \in 1..nDocs(c) :
        /\ heap[Docs(c)[i]].text.t = "string"
        /\ heap[Docs(c)[i]].attributes.t = "object"

\* What apply(FUN) leaves when FUN raises first at index k (from 0): the
\* documents before k hold what FUN returned for them, the others their old
\* text; nDocs, the documents array and all attributes are as before.
PartialApply(c, FUN, k) ==
    /\ err' # "none"
    /\ ret' = RetNothing
    /\ documents' = documents
    /\ \A d \in 1..Len(heap) : heap'[d].attributes = heap[d].attributes
    /\ \A i \in 1..nDocs(c) :
          heap'[Docs(c)[i]].text =
             IF i - 1 < k
             THEN CallFUN(FUN, heap[Docs(c)[i]].text, heap[Docs(c)[i]].attributes, i - 1).val
             ELSE heap[Docs(c)[i]].text
FirstRaise(c, FUN) == (CHOOSE i \in Raises(c, FUN) : \A j \in Raises(c, FUN) : i <= j) - 1

\* C9 as stated: whenever fn raises at some index of apply(fn), the error
\* reaches the caller and the corpus is left as PartialApply says.
C9_ApplyStopsAtRaise ==
    [][(last'.op = "apply" /\ last'.arg.throwAt \in 0..(nDocs(last'.self) - 1))
        => \E k \in 0..last'.arg.throwAt : PartialApply(last'.self, last'.arg, k)]_vars

\* C9, amended: in a corpus none of whose Document objects occurs at two
\* indices, apply(fn) with fn raising first at index k lets the error reach
\* the caller and leaves documents 0..k-1 with the text fn returned,
\* documents k..nDocs-1 with their previous text, and nDocs and all attributes
\* unchanged.
C9_ApplyStopsAtRaiseDistinct ==
    [][(last'.op = "apply" /\ NoDuplicate(Docs(last'.self))
            /\ Raises(last'.self, last'.arg) # {})
        => PartialApply(last'.self, last'.arg, FirstRaise(last'.self, last'.arg))]_vars

\* apply raised at index 1 of a corpus of distinct documents: document 0 has
\* the text the function returns, document 1 has not.
C9_Witness ==
    /\ last.op = "apply"
    /\ err = "FUN"
    /\ last.arg = [base |-> "const", throwAt |-> 1]
    /\ nDocs(last.self) >= 2
    /\ NoDuplicate(Docs(last.self))
    /\ heap[Docs(last.self)[1]].text = Str(<<"x">>)
    /\ heap[Docs(last.self)[2]].text # Str(<<"x">>)

\* C10: addDocs with an array that is neither all strings nor all
\* Document-shaped objects raises InvalidArgument and appends nothing:
\* documents, nDocs and every Document are as before.
C10_AddDocsRejectsMixed ==
    [][(last'.op = "addDocs" /\ last'.arg.t = "array"
            /\ ~IsArrayOfStrings(last'.arg) /\ ~IsArrayOfDocuments(last'.arg))
        => (err' = "InvalidArgument" /\ ret' = RetNothing
            /\ heap' = heap /\ documents' = documents)]_vars

\* A two-element array of a Document and a string was refused by a corpus
\* that holds documents.
C10_Witness ==
    /\ last.op = "addDocs"
    /\ err = "InvalidArgument"
    /\ last.arg.t = "array"
    /\ Len(last.arg.elems) = 2
    /\ isDoc(last.arg.elems[1])
    /\ isString(last.arg.elems[2])
    /\ nDocs(last.self) > 0
====
